---- MODULE Spec2Model ----
(***************************************************************************)
(* A model of the transaction bot of src/main.go: the update loop, the two *)
(* handlers (handleMessage, handleCallbackQuery), the four dialog steps,   *)
(* the insert into the transactions table and the monthly summary.         *)
(*                                                                         *)
(* Texts are sequences of characters (one-character strings; a character   *)
(* outside ASCII is a token such as "e_acute"), so that strconv.ParseFloat *)
(* and len() are computed from the text and not assumed.                   *)
(***************************************************************************)
EXTENDS Integers, Sequences, FiniteSets, TLC

(***************************************************************************)
(* Bounds of the model.                                                    *)
(***************************************************************************)
\* iterations of the update loop, and hours of clock time, explored
MaxSteps == 7

(***************************************************************************)
(* Configuration (main, lines 44-60).                                      *)
(***************************************************************************)
\* ALLOWED_USER_ID, read from the environment
ALLOWED_USER_ID == 1001
\* some other Telegram user
StrangerID == 2002

\* the configured category list (CATEGORIES in the environment)
categories == <<"Food", "Salary">>
CategorySet == {categories[i] : i \in 1..Len(categories)}

\* the callback data of the two buttons of the type prompt
TypeButtons == <<"income", "expense">>
TypeSet == {TypeButtons[i] : i \in 1..Len(TypeButtons)}

\* len(message.Text) > 100
DescriptionLimit == 100

(***************************************************************************)
(* Characters and strings.                                                 *)
(***************************************************************************)
Digits == {"0", "1", "2", "3", "4", "5", "6", "7", "8", "9"}

DigitVal(c) ==
    CASE c = "0" -> 0 [] c = "1" -> 1 [] c = "2" -> 2 [] c = "3" -> 3
      [] c = "4" -> 4 [] c = "5" -> 5 [] c = "6" -> 6 [] c = "7" -> 7
      [] c = "8" -> 8 [] c = "9" -> 9

\* characters whose UTF-8 encoding takes two bytes
TwoByteChars == {"e_acute"}

\* the number of bytes of the UTF-8 encoding of one character
Utf8Len(c) == IF c \in TwoByteChars THEN 2 ELSE 1

(* A string is kept run-length encoded: a sequence of runs [c, n], n >= 1   *)
(* copies of the character c, adjacent runs of different characters.  Two  *)
(* strings are equal exactly when their encodings are.                     *)

\* the string s followed by the string t
Concat(s, t) ==
    IF s # <<>> /\ t # <<>> /\ s[Len(s)].c = t[1].c
    THEN SubSeq(s, 1, Len(s) - 1)
             \o <<[c |-> t[1].c, n |-> s[Len(s)].n + t[1].n]>>
             \o Tail(t)
    ELSE s \o t

RECURSIVE StrFrom(_, _, _)
\* the string made of the characters lo..hi of a sequence
StrFrom(chars, lo, hi) ==
    IF lo > hi THEN <<>>
    ELSE IF lo = hi THEN <<[c |-> chars[lo], n |-> 1]>>
    ELSE Concat(StrFrom(chars, lo, (lo + hi) \div 2),
                StrFrom(chars, (lo + hi) \div 2 + 1, hi))

\* the string made of the characters of a sequence
Str(chars) == StrFrom(chars, 1, Len(chars))

RECURSIVE CharsFrom(_, _, _)
\* the characters of the runs lo..hi of a string
CharsFrom(s, lo, hi) ==
    IF lo > hi THEN <<>>
    ELSE IF lo = hi THEN [i \in 1..s[lo].n |-> s[lo].c]
    ELSE CharsFrom(s, lo, (lo + hi) \div 2)
             \o CharsFrom(s, (lo + hi) \div 2 + 1, hi)

\* the characters of a string, one by one
Chars(s) == CharsFrom(s, 1, Len(s))

RECURSIVE BytesFrom(_, _, _)
\* the number of bytes of the runs lo..hi of a string
BytesFrom(s, lo, hi) ==
    IF lo > hi THEN 0
    ELSE IF lo = hi THEN s[lo].n * Utf8Len(s[lo].c)
    ELSE BytesFrom(s, lo, (lo + hi) \div 2) + BytesFrom(s, (lo + hi) \div 2 + 1, hi)

\* Go's len(s) of a string: its length in bytes
ByteLen(s) == BytesFrom(s, 1, Len(s))

\* the number of characters (code points) of a string
CharLen(s) == Len(Chars(s))

\* the string made of n copies of the character c
Rep(c, n) == IF n = 0 THEN <<>> ELSE <<[c |-> c, n |-> n]>>

\* the letters of ASCII, upper and lower case in the same order
UpperLetters ==
    <<"A", "B", "C", "D", "E", "F", "G", "H", "I", "J", "K", "L", "M",
      "N", "O", "P", "Q", "R", "S", "T", "U", "V", "W", "X", "Y", "Z">>
LowerLetters ==
    <<"a", "b", "c", "d", "e", "f", "g", "h", "i", "j", "k", "l", "m",
      "n", "o", "p", "q", "r", "s", "t", "u", "v", "w", "x", "y", "z">>

\* strconv's lower(c): the lower case of an ASCII letter
Lower(c) ==
    IF \E i \in 1..26 : UpperLetters[i] = c
    THEN LowerLetters[CHOOSE i \in 1..26 : UpperLetters[i] = c]
    ELSE c

Max(a, b) == IF a >= b THEN a ELSE b
Min(a, b) == IF a <= b THEN a ELSE b
SetMax(S) == CHOOSE x \in S : \A y \in S : y <= x
SetMin(S) == CHOOSE x \in S : \A y \in S : x <= y

(***************************************************************************)
(* Natural numbers of any size.  A float64 has a mantissa of 53 bits and   *)
(* the decimal texts it is read from and printed to have hundreds of       *)
(* digits, more than an integer of the model checker holds, so a natural   *)
(* number is a sequence of limbs of 15 bits, the least significant first,  *)
(* the last one not zero; <<>> is 0.                                       *)
(***************************************************************************)
LimbBits == 15
Base == 2^LimbBits

Limb(a, i) == IF i \in 1..Len(a) THEN a[i] ELSE 0

\* a without its leading zero limbs
BigTrim(a) ==
    LET nz == {i \in 1..Len(a) : a[i] # 0}
    IN  IF nz = {} THEN <<>> ELSE SubSeq(a, 1, SetMax(nz))

\* the natural number n < 2^31
BigOf(n) == BigTrim(<<n % Base, (n \div Base) % Base, n \div (Base * Base)>>)

RECURSIVE Carry(_, _, _, _)
\* the columns lo..hi of x (integers, each the weight Base of the one before)
\* brought into 0..Base-1, from a carry into the lowest: [out, c]
Carry(x, lo, hi, cin) ==
    IF cin = 0 /\ \A i \in lo..hi : x[i] \in 0..(Base - 1)
    THEN [out |-> SubSeq(x, lo, hi), c |-> 0]
    ELSE IF lo = hi
    THEN LET v == x[lo] + cin
             d == ((v % Base) + Base) % Base
         IN  [out |-> <<d>>, c |-> (v - d) \div Base]
    ELSE LET mid == (lo + hi) \div 2
             low == Carry(x, lo, mid, cin)
             high == Carry(x, mid + 1, hi, low.c)
         IN  [out |-> low.out \o high.out, c |-> high.c]

\* the natural number with these columns (its value must not be negative)
BigFromColumns(x) ==
    IF x = <<>> THEN <<>>
    ELSE LET r == Carry(x, 1, Len(x), 0)
         IN  BigTrim(Append(r.out, r.c))

BigAdd(a, b) == BigFromColumns([i \in 1..Max(Len(a), Len(b)) |-> Limb(a, i) + Limb(b, i)])

\* a - b, for a >= b
BigSub(a, b) == BigFromColumns([i \in 1..Max(Len(a), Len(b)) |-> Limb(a, i) - Limb(b, i)])

\* a * k, for 0 <= k < Base
BigMulSmall(a, k) == BigFromColumns([i \in 1..Len(a) |-> a[i] * k])

\* -1, 0 or 1 as a is less than, equal to or greater than b
BigCmp(a, b) ==
    IF Len(a) # Len(b) THEN (IF Len(a) < Len(b) THEN -1 ELSE 1)
    ELSE LET diff == {i \in 1..Len(a) : a[i] # b[i]}
         IN  IF diff = {} THEN 0
             ELSE IF a[SetMax(diff)] < b[SetMax(diff)] THEN -1 ELSE 1

RECURSIVE DivLimbs(_, _, _, _, _)
\* the limbs hi down to lo of a divided by k, from the remainder left by the
\* limbs above: [out, r]
DivLimbs(a, k, lo, hi, rin) ==
    IF rin = 0 /\ \A i \in lo..hi : a[i] = 0
    THEN [out |-> [i \in 1..(hi - lo + 1) |-> 0], r |-> 0]
    ELSE IF lo = hi
    THEN LET v == rin * Base + a[lo]
         IN  [out |-> <<v \div k>>, r |-> v % k]
    ELSE LET mid == (lo + hi) \div 2
             high == DivLimbs(a, k, mid + 1, hi, rin)
             low == DivLimbs(a, k, lo, mid, high.r)
         IN  [out |-> low.out \o high.out, r |-> low.r]

\* quotient and remainder of a by k, for 0 < k < Base: [q, r]
BigDivSmall(a, k) ==
    IF a = <<>> THEN [q |-> <<>>, r |-> 0]
    ELSE LET d == DivLimbs(a, k, 1, Len(a), 0)
         IN  [q |-> BigTrim(d.out), r |-> d.r]

\* a * 2^n
BigShl(a, n) ==
    IF a = <<>> THEN <<>>
    ELSE LET d == n \div LimbBits
             r == n % LimbBits
         IN  BigTrim([i \in 1..(Len(a) + d + 1) |->
                 IF i <= d THEN 0
                 ELSE ((Limb(a, i - d) * 2^r) % Base)
                          + (Limb(a, i - d - 1) \div 2^(LimbBits - r))])

\* a \div 2^n
BigShr(a, n) ==
    LET d == n \div LimbBits
        r == n % LimbBits
    IN  IF Len(a) <= d THEN <<>>
        ELSE BigTrim([i \in 1..(Len(a) - d) |->
                 (a[i + d] \div 2^r) + (Limb(a, i + d + 1) % 2^r) * 2^(LimbBits - r)])

\* the n lowest bits of a are all zero
LowBitsZero(a, n) ==
    /\ \A i \in 1..Min(Len(a), n \div LimbBits) : a[i] = 0
    /\ Limb(a, n \div LimbBits + 1) % 2^(n % LimbBits) = 0

BigIsOdd(a) == a # <<>> /\ a[1] % 2 = 1

\* the number of bits of a: 0 for 0
BitLen(a) ==
    IF a = <<>> THEN 0
    ELSE LimbBits * (Len(a) - 1)
             + (CHOOSE k \in 1..LimbBits : 2^(k - 1) <= a[Len(a)] /\ a[Len(a)] < 2^k)

\* the number of zero bits below the lowest one bit of a, for a > 0
TrailingZeros(a) ==
    LET j == SetMin({i \in 1..Len(a) : a[i] # 0})
    IN  LimbBits * (j - 1)
            + (CHOOSE k \in 0..(LimbBits - 1) : a[j] % 2^k = 0 /\ a[j] % 2^(k + 1) # 0)

RECURSIVE BigMulPow10(_, _)
\* a * 10^n
BigMulPow10(a, n) ==
    IF a = <<>> \/ n = 0 THEN a
    ELSE IF n <= 4 THEN BigMulSmall(a, 10^n)
    ELSE BigMulPow10(BigMulPow10(a, n \div 2), n - n \div 2)

RECURSIVE BigDivPow10(_, _)
\* a \div 10^n, and whether the division is exact: [q, exact]
BigDivPow10(a, n) ==
    IF a = <<>> \/ n = 0 THEN [q |-> a, exact |-> TRUE]
    ELSE IF n <= 4
         THEN LET d == BigDivSmall(a, 10^n) IN [q |-> d.q, exact |-> d.r = 0]
    ELSE LET first == BigDivPow10(a, n \div 2)
             second == BigDivPow10(first.q, n - n \div 2)
         IN  [q |-> second.q, exact |-> first.exact /\ second.exact]

RECURSIVE BigOfDigits(_, _, _, _)
\* the number written by the digits lo..hi of ds (values below radix, the most
\* significant first), radix being 10 or 16
BigOfDigits(ds, lo, hi, radix) ==
    IF lo > hi THEN <<>>
    ELSE IF lo = hi THEN BigOf(ds[lo])
    ELSE LET mid == (lo + hi) \div 2
             high == BigOfDigits(ds, lo, mid, radix)
             low == BigOfDigits(ds, mid + 1, hi, radix)
         IN  BigAdd(IF radix = 16 THEN BigShl(high, 4 * (hi - mid))
                    ELSE BigMulPow10(high, hi - mid),
                    low)

RECURSIVE BigDigits(_, _)
\* the n decimal digits of a < 10^n, the most significant first
BigDigits(a, n) ==
    IF n <= 4
    THEN [i \in 1..n |-> (Limb(a, 1) \div 10^(n - i)) % 10]
    ELSE LET h == n \div 2
             q == BigDivPow10(a, h).q
             r == BigSub(a, BigMulPow10(q, h))
         IN  BigDigits(q, n - h) \o BigDigits(r, h)

\* the decimal digits of a, the most significant first; <<>> for 0
BigDecimal(a) ==
    \* 2^b < 10^(b * 0.30103 + 1)
    LET ds == BigDigits(a, (BitLen(a) * 30103) \div 100000 + 1)
        nz == {i \in 1..Len(ds) : ds[i] # 0}
    IN  IF nz = {} THEN <<>> ELSE SubSeq(ds, SetMin(nz), Len(ds))

(***************************************************************************)
(* float64 values (IEEE 754 binary64).  A finite value is sign * mant *    *)
(* 2^exp with mant an odd natural number below 2^53 and exp at least       *)
(* -1074, or mant = 0 and exp = 0 (the two zeros); so two values are equal *)
(* as records exactly when they are the same float64.                      *)
(***************************************************************************)
MantBits == 53
MinExp == -1074
\* the first power of two that is too large for a float64
MaxBits == 1024

Inf(neg) == [kind |-> "inf", neg |-> neg, mant |-> <<>>, exp |-> 0]
NaN == [kind |-> "nan", neg |-> FALSE, mant |-> <<>>, exp |-> 0]

\* the float64 +-n * 2^e, for a natural number n that fits: odd part of at
\* most 53 bits, e not below -1074
FloatOf(neg, n, e) ==
    IF n = <<>> THEN [kind |-> "fin", neg |-> neg, mant |-> <<>>, exp |-> 0]
    ELSE LET tz == TrailingZeros(n)
         IN  [kind |-> "fin", neg |-> neg, mant |-> BigShr(n, tz), exp |-> e + tz]

\* the zero value of a float64 field
Zero == FloatOf(FALSE, <<>>, 0)

\* q, or q + 1 when the part of a value that lies below q is more than a
\* half, or a half exactly and q is odd (half: that part is a half or more;
\* rest: it is no exact half)
RoundEven(q, half, rest) ==
    IF half /\ (rest \/ BigIsOdd(q)) THEN BigAdd(q, <<1>>) ELSE q

\* (n + f) / 2^sh rounded to the nearest natural number, a tie going to the
\* even one, for sh > 0; f is 0, or some fraction in (0, 1) when sticky
RoundShr(n, sh, sticky) ==
    RoundEven(BigShr(n, sh), BigIsOdd(BigShr(n, sh - 1)),
              sticky \/ ~LowBitsZero(n, sh - 1))

\* +-r * 2^e as a float64, r having at most 53 bits: +-Inf beyond the largest
FloatOrInf(neg, r, e) ==
    IF BitLen(r) + e > MaxBits THEN Inf(neg) ELSE FloatOf(neg, r, e)

\* +-(n + f) * 2^e rounded to a multiple of 2^lsb
RoundAt(neg, n, e, sticky, lsb) ==
    IF lsb <= e THEN FloatOrInf(neg, n, e)
    ELSE FloatOrInf(neg, RoundShr(n, lsb - e, sticky), lsb)

\* the float64 nearest to +-(n + f) * 2^e, a tie going to the even mantissa,
\* where f is 0, or some fraction in (0, 1) when sticky is set (n has 55
\* bits or more then); +-Inf beyond the largest float64
RoundFloat(neg, n, e, sticky) ==
    IF n = <<>> THEN FloatOf(neg, <<>>, 0)
    ELSE RoundAt(neg, n, e, sticky, Max(e + BitLen(n) - MantBits, MinExp))

\* the float64 nearest to +-(q.q + f) / 2^s, f # 0 when q is not exact
RoundQuotient(neg, q, s) == RoundFloat(neg, q.q, -s, ~q.exact)

\* the float64 nearest to +-d / 10^k, d shifted left by s bits beforehand so
\* that the quotient has 63 bits or more
DivideByPow10(neg, d, k, s) ==
    RoundQuotient(neg, BigDivPow10(BigShl(d, s), k), s)

\* the float64 nearest to +-d * 10^dexp
DecimalToFloat(neg, d, dexp) ==
    IF d = <<>> THEN FloatOf(neg, <<>>, 0)
    ELSE IF dexp >= 0
         THEN (IF dexp > 310 THEN Inf(neg)
               ELSE RoundFloat(neg, BigMulPow10(d, dexp), 0, FALSE))
    ELSE IF -dexp > BitLen(d) + 340 THEN FloatOf(neg, <<>>, 0)
    \* 10^k < 2^((10 k) \div 3 + 1)
    ELSE DivideByPow10(neg, d, -dexp,
                       Max(0, 64 + (10 * (-dexp)) \div 3 + 1 - BitLen(d)))

\* the float64 written mant / 10^frac in decimal
Finite(neg, mant, frac) == DecimalToFloat(neg, BigOf(mant), -frac)

\* x <= 0 on float64: false for NaN, whatever the other operand
FloatLeqZero(x) ==
    CASE x.kind = "nan" -> FALSE
      [] x.kind = "inf" -> x.neg
      [] OTHER -> x.neg \/ x.mant = <<>>

\* x > 0 on float64: false for NaN
FloatGtZero(x) ==
    CASE x.kind = "nan" -> FALSE
      [] x.kind = "inf" -> ~x.neg
      [] OTHER -> ~x.neg /\ x.mant # <<>>

(***************************************************************************)
(* strconv.ParseFloat(s, 64): the special values first (strconv's          *)
(* special), then a decimal or hexadecimal number (readFloat, with its     *)
(* underscores and its exponent), rounded to the nearest float64.          *)
(***************************************************************************)
RECURSIVE commonPrefixLenIgnoreCase(_, _)
commonPrefixLenIgnoreCase(s, prefix) ==
    IF s = <<>> \/ prefix = <<>> THEN 0
    ELSE IF Lower(Head(s)) = Head(prefix)
         THEN 1 + commonPrefixLenIgnoreCase(Tail(s), Tail(prefix))
         ELSE 0

Infinity == <<"i", "n", "f", "i", "n", "i", "t", "y">>
Nan == <<"n", "a", "n">>

\* strconv's special: [ok, n (characters consumed), val]
special(s) ==
    LET no == [ok |-> FALSE, n |-> 0, val |-> Zero]
        signed == s # <<>> /\ Head(s) \in {"+", "-"}
        nsign == IF signed THEN 1 ELSE 0
        rest == IF signed THEN Tail(s) ELSE s
        k == commonPrefixLenIgnoreCase(rest, Infinity)
        n == IF 3 < k /\ k < 8 THEN 3 ELSE k
    IN  IF s = <<>> THEN no
        ELSE IF signed \/ Lower(Head(s)) = "i"
             THEN IF n = 3 \/ n = 8
                  THEN [ok |-> TRUE, n |-> nsign + n, val |-> Inf(signed /\ Head(s) = "-")]
                  ELSE no
        ELSE IF Lower(Head(s)) = "n"
             THEN IF commonPrefixLenIgnoreCase(s, Nan) = 3
                  THEN [ok |-> TRUE, n |-> 3, val |-> NaN]
                  ELSE no
        ELSE no

HexLetters == {"a", "b", "c", "d", "e", "f"}

IsDigit(c) == c \in Digits
IsHexDigit(c) == c \in Digits \/ Lower(c) \in HexLetters

\* the value of a decimal or hexadecimal digit
HexVal(c) ==
    IF c \in Digits THEN DigitVal(c)
    ELSE 9 + (CHOOSE i \in 1..6 : LowerLetters[i] = Lower(c))

\* the digit loop of readFloat on s from position start (hex: after a 0x):
\* it takes underscores, the first point, digits and, after 0x, the letters
\* a-f, and stops at anything else.  stop is the position it stops at,
\* digits the digits read, fd how many of them follow the point.
readDigits(s, start, hex) ==
    LET taken(c) == c = "_" \/ c = "." \/ (IF hex THEN IsHexDigit(c) ELSE IsDigit(c))
        others == {j \in start..Len(s) : ~taken(s[j])}
        points == {j \in start..Len(s) : s[j] = "."}
        second == {j \in points : \E i \in points : i < j}
        stop == SetMin(others \cup second \cup {Len(s) + 1})
        point == {j \in points : j < stop}
        isdigit(c) == IF hex THEN IsHexDigit(c) ELSE IsDigit(c)
        at == {j \in start..(stop - 1) : isdigit(s[j])}
    IN  [stop |-> stop,
         sawdigits |-> at # {},
         underscores |-> \E j \in start..(stop - 1) : s[j] = "_",
         digits |-> SelectSeq(SubSeq(s, start, stop - 1), isdigit),
         fd |-> Cardinality({j \in at : \E p \in point : p < j})]

\* the value of the exponent digits ds of readFloat, whose loop stops adding
\* digits once e has reached 10000: the first five from the first one that
\* is not 0
ExponentValue(ds, from) ==
    LET place(j) == IF from + j - 1 <= Len(ds)
                    THEN DigitVal(ds[from + j - 1])
                             * 10^(Min(Len(ds), from + 4) - (from + j - 1))
                    ELSE 0
    IN  place(1) + place(2) + place(3) + place(4) + place(5)

\* the position of the first digit of ds that is not 0, Len(ds) + 1 if none
FirstNonZero(ds) == SetMin({j \in 1..Len(ds) : ds[j] # "0"} \cup {Len(ds) + 1})

\* the exponent digits of s from position first up to position stop - 1
ExponentDigits(s, first, stop, negative) ==
    [ok |-> TRUE, stop |-> stop,
     e |-> (IF negative THEN -1 ELSE 1)
               * ExponentValue(SelectSeq(SubSeq(s, first, stop - 1), IsDigit),
                               FirstNonZero(SelectSeq(SubSeq(s, first, stop - 1), IsDigit))),
     underscores |-> \E j \in first..(stop - 1) : s[j] = "_"]

\* the exponent of readFloat on s from position first, after the exponent
\* character and the optional sign
ExponentFrom(s, first, negative) ==
    IF first > Len(s) \/ ~IsDigit(s[first])
    THEN [ok |-> FALSE, stop |-> first, e |-> 0, underscores |-> FALSE]
    ELSE ExponentDigits(s, first,
             SetMin({j \in first..Len(s) : ~(IsDigit(s[j]) \/ s[j] = "_")}
                        \cup {Len(s) + 1}),
             negative)

\* the exponent of readFloat, when s has the exponent character at position
\* at: [ok, stop, e, underscores]
readExponent(s, at) ==
    IF at + 1 <= Len(s) /\ s[at + 1] \in {"+", "-"}
    THEN ExponentFrom(s, at + 2, s[at + 1] = "-")
    ELSE ExponentFrom(s, at + 1, FALSE)

\* strconv's underscoreOK on s, the optional sign already taken off: every
\* underscore stands between two digits, or between a base prefix and a digit
underscoreOK(s) ==
    LET prefix == Len(s) >= 2 /\ s[1] = "0" /\ Lower(s[2]) \in {"b", "o", "x"}
        hex == prefix /\ Lower(s[2]) = "x"
        from == IF prefix THEN 3 ELSE 1
        digit(j) == j >= from /\ j <= Len(s)
                       /\ (IsDigit(s[j]) \/ (hex /\ Lower(s[j]) \in HexLetters))
    IN  \A j \in from..Len(s) :
            s[j] = "_" => /\ (digit(j - 1) \/ (prefix /\ j = 3))
                          /\ digit(j + 1)

\* the natural number written by the digits read, in base radix
Mantissa(digits, radix) ==
    BigOfDigits([j \in 1..Len(digits) |-> HexVal(digits[j])], 1, Len(digits), radix)

\* the float64 nearest to the number read: digits m and exponent x
FloatRead(neg, hex, m, x) ==
    IF hex THEN RoundFloat(neg, Mantissa(m.digits, 16), x.e - 4 * m.fd, FALSE)
    ELSE DecimalToFloat(neg, Mantissa(m.digits, 10), x.e - m.fd)

\* the result of readFloat and of the conversion: [ok, n, val, range], n the
\* number of characters consumed, range set when the value is too large
Read(n, val) == [ok |-> TRUE, n |-> n, val |-> val, range |-> val.kind = "inf"]

NotRead == [ok |-> FALSE, n |-> 0, val |-> Zero, range |-> FALSE]

\* readFloat once the digits m and the exponent x are read from body
ReadNumber(neg, nsign, body, hex, m, x) ==
    IF body = <<>> \/ ~m.sawdigits \/ ~x.ok THEN NotRead
    ELSE IF (m.underscores \/ x.underscores)
                /\ ~underscoreOK(SubSeq(body, 1, x.stop - 1))
         THEN NotRead
    ELSE Read(nsign + x.stop - 1, FloatRead(neg, hex, m, x))

\* the optional exponent of readFloat: after the digits m, the character e
\* (p after 0x, where it is mandatory)
OptionalExponent(body, hex, m) ==
    IF m.stop <= Len(body) /\ Lower(body[m.stop]) = (IF hex THEN "p" ELSE "e")
    THEN readExponent(body, m.stop)
    ELSE [ok |-> ~hex, stop |-> m.stop, e |-> 0, underscores |-> FALSE]

\* readFloat once the digits m are read from body
ReadAfterDigits(neg, nsign, body, hex, m) ==
    ReadNumber(neg, nsign, body, hex, m, OptionalExponent(body, hex, m))

\* readFloat after the optional sign and the optional base prefix 0x
ReadAfterPrefix(neg, nsign, body, hex) ==
    ReadAfterDigits(neg, nsign, body, hex,
                    readDigits(body, IF hex THEN 3 ELSE 1, hex))

\* readFloat after the optional sign
ReadAfterSign(neg, nsign, body) ==
    ReadAfterPrefix(neg, nsign, body,
                    Len(body) >= 3 /\ body[1] = "0" /\ Lower(body[2]) = "x")

HasSign(s) == s # <<>> /\ s[1] \in {"+", "-"}

\* readFloat and the conversion of what it read
readFloat(s) ==
    ReadAfterSign(HasSign(s) /\ s[1] = "-",
                  IF HasSign(s) THEN 1 ELSE 0,
                  IF HasSign(s) THEN Tail(s) ELSE s)

\* ParseFloat on the characters s, which are no special value: an error when
\* readFloat fails or leaves characters, or when the value is out of range
ParseNumber(s, r) ==
    IF ~r.ok \/ r.n # Len(s) THEN [err |-> TRUE, val |-> Zero]
    ELSE [err |-> r.range, val |-> r.val]

\* ParseFloat on the characters s, sp being what special found
ParseChars(s, sp) ==
    IF sp.ok
    THEN [err |-> sp.n # Len(s), val |-> IF sp.n = Len(s) THEN sp.val ELSE Zero]
    ELSE ParseNumber(s, readFloat(s))

ParseSpecialOrNumber(s) == ParseChars(s, special(s))

\* strconv's atof64 with the error of ParseFloat: [err, val], err being TRUE
\* when the error returned is not nil
atof64(str) == ParseSpecialOrNumber(Chars(str))

\* texts sent in answer to the amount prompt: 12.5 written in four ways, a
\* number too large for a float64, and what is no positive number
AmountTexts ==
    { Str(<<"1", "2", ".", "5", "0">>),
      Str(<<"1", ".", "2", "5", "e", "1">>),
      Str(<<"1", "_", "2", ".", "5">>),
      Str(<<"0", "x", "1", ".", "9", "p", "3">>),
      Str(<<"1", "e", "9", "9", "9">>),
      Str(<<"0">>),
      Str(<<"-", "5">>),
      Str(<<"a", "b", "c">>),
      Str(<<"N", "a", "N">>),
      Str(<<"I", "n", "f">>) }

\* what atof64 makes of each of these texts, computed once
AmountsRead == [text \in AmountTexts |-> atof64(text)]

\* strconv.ParseFloat(str, 64)
ParseFloat(str) == IF str \in AmountTexts THEN AmountsRead[str] ELSE atof64(str)

(***************************************************************************)
(* Time.  A time.Time is the UTC civil time of the instant and loc, the     *)
(* offset in hours of the zone its fields are printed in: time.Now() has   *)
(* the zone of the server (time.Local).                                    *)
(***************************************************************************)
StartTime == [y |-> 2024, mo |-> 12, d |-> 31, h |-> 16, mi |-> 59, s |-> 59]

IsLeap(y) == (y % 4 = 0 /\ y % 100 # 0) \/ y % 400 = 0

DaysIn(y, mo) ==
    IF mo = 2 THEN (IF IsLeap(y) THEN 29 ELSE 28)
    ELSE IF mo \in {4, 6, 9, 11} THEN 30 ELSE 31

\* the same time of day on the next day
AddDay(t) ==
    IF t.d < DaysIn(t.y, t.mo) THEN [t EXCEPT !.d = t.d + 1]
    ELSE IF t.mo < 12 THEN [t EXCEPT !.d = 1, !.mo = t.mo + 1]
    ELSE [t EXCEPT !.d = 1, !.mo = 1, !.y = t.y + 1]

\* the same time of day on the day before
SubDay(t) ==
    IF t.d > 1 THEN [t EXCEPT !.d = t.d - 1]
    ELSE IF t.mo > 1 THEN [t EXCEPT !.d = DaysIn(t.y, t.mo - 1), !.mo = t.mo - 1]
    ELSE [t EXCEPT !.d = 31, !.mo = 12, !.y = t.y - 1]

RECURSIVE AddDays(_, _)
AddDays(t, n) ==
    IF n = 0 THEN t
    ELSE IF n > 0 THEN AddDays(AddDay(t), n - 1)
    ELSE AddDays(SubDay(t), n + 1)

\* the civil time n hours later (earlier, for a negative n)
AddHours(t, n) == AddDays([t EXCEPT !.h = (t.h + n) % 24], (t.h + n) \div 24)

\* time.FixedZone("GMT+7", 7*60*60): the offset in hours
ZoneHours == 7

\* the civil time of t.In(time.FixedZone("GMT+7", 7*60*60))
InGMT7(t) == AddHours(t, ZoneHours)

\* the civil time of t in its own zone
InLocation(t) == AddHours(t, t.loc)

\* t.Format("2006-01-02 15:04:05"): the fields of the text, in its order
FormatDateTime(t) == <<t.y, t.mo, t.d, t.h, t.mi, t.s>>

\* t.UTC().Format("01"): the two-digit month
FormatMonth(t) == t.mo

\* SQLite's strftime('%m', created_at) on a text of the layout above
StrftimeMonth(createdAt) == createdAt[2]

(***************************************************************************)
(* float64 arithmetic for the totals of the summary.                       *)
(***************************************************************************)
FloatNeg(x) == IF x.kind = "nan" THEN x ELSE [x EXCEPT !.neg = ~x.neg]

\* +-a * 2^e +- b * 2^e for natural numbers a, b other than 0
AddMagnitudes(xneg, yneg, a, b, e) ==
    IF xneg = yneg THEN RoundFloat(xneg, BigAdd(a, b), e, FALSE)
    ELSE CASE BigCmp(a, b) = 0 -> FloatOf(FALSE, <<>>, 0)
           [] BigCmp(a, b) > 0 -> RoundFloat(xneg, BigSub(a, b), e, FALSE)
           [] OTHER -> RoundFloat(yneg, BigSub(b, a), e, FALSE)

\* x + y for finite values other than 0, in units of 2^e
AddAt(x, y, e) ==
    AddMagnitudes(x.neg, y.neg, BigShl(x.mant, x.exp - e),
                  BigShl(y.mant, y.exp - e), e)

\* x + y, rounded to the nearest float64
FloatAdd(x, y) ==
    CASE x.kind = "nan" \/ y.kind = "nan" -> NaN
      [] x.kind = "inf" /\ y.kind = "inf" -> IF x.neg = y.neg THEN x ELSE NaN
      [] x.kind = "inf" -> x
      [] y.kind = "inf" -> y
      [] x.mant = <<>> /\ y.mant = <<>> -> FloatOf(x.neg /\ y.neg, <<>>, 0)
      [] x.mant = <<>> -> y
      [] y.mant = <<>> -> x
      [] OTHER -> AddAt(x, y, Min(x.exp, y.exp))

\* x - y
FloatSub(x, y) == FloatAdd(x, FloatNeg(y))

\* the characters of a sequence of decimal digits
DigitChars(ds) ==
    [i \in 1..Len(ds) |-> CHOOSE c \in Digits : DigitVal(c) = ds[i]]

\* the sign, the characters but the last two, a point, the last two
PointBeforeLastTwo(neg, chars) ==
    (IF neg THEN <<"-">> ELSE <<>>)
        \o SubSeq(chars, 1, Len(chars) - 2) \o <<".">>
        \o SubSeq(chars, Len(chars) - 1, Len(chars))

\* a number of hundredths, given as its quotient and remainder by 100
HundredthsText(neg, d) ==
    PointBeforeLastTwo(neg,
        DigitChars((IF d.q = <<>> THEN <<0>> ELSE BigDecimal(d.q))
                       \o <<d.r \div 10, d.r % 10>>))

\* the natural number nearest to n * 2^e, a tie going to the even one
RoundToInteger(n, e) ==
    IF e >= 0 THEN BigShl(n, e) ELSE RoundShr(n, -e, FALSE)

\* fmt's %.2f: the characters of the text.  The exact value is rounded to
\* the nearest hundredth, a tie going to the even one; a negative value,
\* the negative zero included, has the sign; the special values are spelled
Format2f(x) ==
    CASE x.kind = "nan" -> <<"N", "a", "N">>
      [] x.kind = "inf" -> <<IF x.neg THEN "-" ELSE "+", "I", "n", "f">>
      [] OTHER ->
           HundredthsText(x.neg,
               BigDivSmall(RoundToInteger(BigMulSmall(x.mant, 100), x.exp), 100))

(***************************************************************************)
(* The state of the process.                                               *)
(***************************************************************************)
VARIABLES
    userStates,  \* var userStates: user id -> TransactionState (a partial map)
    db,          \* the rows of the transactions table, in insertion order
    sent,        \* the calls of bot.Send made by the handler of the last update
    clock,       \* hours elapsed since StartTime: time.Now() is Now
    zone,        \* the zone of the server: the offset of time.Local in hours
    sqlite,      \* how the SQLite the process is built with adds up a SUM
    steps,       \* updates handled and hours passed since the process started
    stepBefore   \* the step the last update found the authorized user at ("" if none)

vars == <<userStates, db, sent, clock, zone, sqlite, steps, stepBefore>>

\* sum() of SQLite: a plain running total before version 3.43, a compensated
\* one (Kahan-Babuska-Neumaier) since; the repository pins no version
SumAlgorithms == {"plain", "compensated"}

\* the zones the server may be set to
ServerZones == {0, ZoneHours}

\* the reading of time.Now() at this hour of the clock, on a server of this zone
TimeAt(hours, offset) ==
    LET t == AddHours(StartTime, hours)
    IN  [y |-> t.y, mo |-> t.mo, d |-> t.d, h |-> t.h, mi |-> t.mi, s |-> t.s,
         loc |-> offset]

\* time.Now()
Now == TimeAt(clock, zone)

\* &TransactionState{UserID: userID, Step: "SELECT_TYPE"}: the other fields zero
NewState(userID) ==
    [UserID |-> userID, Step |-> "SELECT_TYPE", TransactionType |-> "",
     Category |-> "", Amount |-> Zero, Description |-> <<>>]

\* userStates[k] = v
MapPut(m, k, v) == [u \in DOMAIN m \cup {k} |-> IF u = k THEN v ELSE m[u]]

\* delete(userStates, k)
MapDelete(m, k) == [u \in DOMAIN m \ {k} |-> m[u]]

EmptyMap == [u \in {} |-> NewState(u)]

\* a row of the transactions table (the id is the position in db)
Row(type, category, amount, description, createdAt) ==
    [type |-> type, category |-> category, amount |-> amount,
     description |-> description, created_at |-> createdAt]

\* a row left in the table by an earlier run of the process
LegacyRow ==
    Row("expense", "Food", Finite(FALSE, 40, 0), Str(<<"o", "l", "d">>),
        <<2023, 12, 5, 9, 30, 0>>)

\* the rows an earlier run left for December 2024 and November 2024, in the
\* order they were entered
Ledger ==
    << Row("income", "Salary", Finite(FALSE, 267, 2), Str(<<"p", "a", "y">>),
           <<2024, 12, 2, 8, 0, 0>>),
       Row("expense", "Food", Finite(FALSE, 40, 0), Str(<<"o", "l", "d">>),
           <<2024, 12, 3, 12, 15, 0>>),
       Row("income", "Salary", Finite(FALSE, 2015, 3), Str(<<"p", "a", "y">>),
           <<2024, 12, 9, 8, 0, 0>>),
       Row("income", "Food", Finite(FALSE, 100, 0), Str(<<"o", "l", "d">>),
           <<2024, 11, 28, 8, 0, 0>>),
       Row("expense", "Food", Finite(FALSE, 275, 1), Str(<<"o", "l", "d">>),
           <<2024, 12, 17, 19, 40, 0>>),
       Row("income", "Salary", Finite(FALSE, 19, 1), Str(<<"p", "a", "y">>),
           <<2024, 12, 23, 8, 0, 0>>) >>

\* the table after CREATE TABLE IF NOT EXISTS: empty, or kept from before
InitialStores == {<<>>, <<LegacyRow>>, Ledger}

(***************************************************************************)
(* Outbound calls: each appends one bot.Send to the handler's output.      *)
(***************************************************************************)
Outbound(op, chatID, messageID, text, keyboard) ==
    [op |-> op, chat |-> chatID, mid |-> messageID, text |-> text,
     keyboard |-> keyboard]

sendMessage(w, chatID, text) ==
    [w EXCEPT !.sent = Append(@, Outbound("sendMessage", chatID, 0, text, <<>>))]

sendMessageWithKeyboard(w, chatID, text, keyboard) ==
    [w EXCEPT !.sent =
        Append(@, Outbound("sendMessageWithKeyboard", chatID, 0, text, keyboard))]

editMessage(w, chatID, messageID, text) ==
    [w EXCEPT !.sent = Append(@, Outbound("editMessage", chatID, messageID, text, <<>>))]

editMessageWithKeyboard(w, chatID, messageID, text, keyboard) ==
    [w EXCEPT !.sent =
        Append(@, Outbound("editMessageWithKeyboard", chatID, messageID, text, keyboard))]

NotAuthorized == <<"You are not authorized to use this bot.">>

(***************************************************************************)
(* The handlers.  Each takes the world w (userStates, db, sent, elapsed,   *)
(* and sqlite, which showSummary's query depends on)                      *)
(* and returns the world it leaves.  A *TransactionState argument is the   *)
(* key of the map entry it points to, so that an assignment through it is  *)
(* an update of the map.                                                   *)
(***************************************************************************)
TypeKeyboard == <<TypeButtons>>
CategoryKeyboard == [i \in 1..Len(categories) |-> <<categories[i]>>]

\* startTransaction, were it to keep the fields of a dialog in progress
startTransaction_KeepsFields(w, chatID, userID) ==
    sendMessageWithKeyboard(
        [w EXCEPT !.userStates =
            IF userID \in DOMAIN @
            THEN [@ EXCEPT ![userID].Step = "SELECT_TYPE"]
            ELSE MapPut(@, userID, NewState(userID))],
        chatID, <<"Please choose the type of transaction:">>, TypeKeyboard)

startTransaction(w, chatID, userID) ==
    sendMessageWithKeyboard(
        [w EXCEPT !.userStates = MapPut(@, userID, NewState(userID))],
        chatID, <<"Please choose the type of transaction:">>, TypeKeyboard)

\* processTransactionType, were it to send the category prompt as a new
\* message
processTransactionType_SendsNew(w, callback, state) ==
    sendMessageWithKeyboard(
        [w EXCEPT !.userStates[state].TransactionType = callback.data,
                  !.userStates[state].Step = "SELECT_CATEGORY"],
        callback.chat,
        <<"You selected %s. Choose a category:", callback.data>>,
        CategoryKeyboard)

processTransactionType(w, callback, state) ==
    editMessageWithKeyboard(
        [w EXCEPT !.userStates[state].TransactionType = callback.data,
                  !.userStates[state].Step = "SELECT_CATEGORY"],
        callback.chat, callback.mid,
        <<"You selected %s. Choose a category:", callback.data>>,
        CategoryKeyboard)

\* processCategory, were it to store the payload as the type as well
processCategory_SetsType(w, callback, state) ==
    editMessage(
        [w EXCEPT !.userStates[state].Category = callback.data,
                  !.userStates[state].TransactionType = callback.data,
                  !.userStates[state].Step = "ENTER_AMOUNT"],
        callback.chat, callback.mid,
        <<"Selected category: %s. Enter the transaction amount.", callback.data>>)

\* processCategory, were it to go straight to the description
processCategory_SkipsAmount(w, callback, state) ==
    editMessage(
        [w EXCEPT !.userStates[state].Category = callback.data,
                  !.userStates[state].Step = "ENTER_DESCRIPTION"],
        callback.chat, callback.mid,
        <<"Selected category: %s. Enter the transaction amount.", callback.data>>)

processCategory(w, callback, state) ==
    editMessage(
        [w EXCEPT !.userStates[state].Category = callback.data,
                  !.userStates[state].Step = "ENTER_AMOUNT"],
        callback.chat, callback.mid,
        <<"Selected category: %s. Enter the transaction amount.", callback.data>>)

\* processAmount, were it to move on without storing the amount
processAmount_NoStore(w, message, state) ==
    LET p == ParseFloat(message.text)
    IN  IF p.err \/ FloatLeqZero(p.val)
        THEN sendMessage(w, message.chat,
                         <<"Invalid amount. Please enter a positive number.">>)
        ELSE sendMessage(
                 [w EXCEPT !.userStates[state].Step = "ENTER_DESCRIPTION"],
                 message.chat,
                 <<"Enter a description for the transaction (max 100 characters).">>)

processAmount(w, message, state) ==
    LET p == ParseFloat(message.text)
    IN  IF p.err \/ FloatLeqZero(p.val)
        THEN sendMessage(w, message.chat,
                         <<"Invalid amount. Please enter a positive number.">>)
        ELSE sendMessage(
                 [w EXCEPT !.userStates[state].Amount = p.val,
                           !.userStates[state].Step = "ENTER_DESCRIPTION"],
                 message.chat,
                 <<"Enter a description for the transaction (max 100 characters).">>)

\* stmt.Exec on the table of lines 76-83: amount is REAL NOT NULL and SQLite
\* binds a NaN as NULL, so the insert of a NaN amount fails like an
\* unavailable store does
ExecSucceeds(env, st) == env.execOk /\ st.Amount.kind # "nan"

\* processDescription, were it to record the UTC time
processDescription_UTC(w, message, state, now, env) ==
    IF ByteLen(message.text) > DescriptionLimit
    THEN sendMessage(w, message.chat,
                     <<"Description too long. Please keep it under 100 characters.">>)
    ELSE LET w1 == [w EXCEPT !.userStates[state].Description = message.text]
             st == w1.userStates[state]
         IN  IF ~env.prepareOk
             THEN sendMessage(w1, message.chat, <<"Failed to prepare transaction.">>)
             ELSE IF ~ExecSucceeds(env, st)
             THEN sendMessage(w1, message.chat, <<"Failed to save transaction.">>)
             ELSE sendMessage(
                      [w1 EXCEPT
                         !.db = Append(@, Row(st.TransactionType, st.Category, st.Amount,
                                              st.Description, FormatDateTime(now))),
                         !.userStates = MapDelete(@, st.UserID)],
                      message.chat, <<"Transaction added successfully!">>)

\* processDescription, were it to leave the dialog state after the insert
processDescription_KeepsState(w, message, state, now, env) ==
    IF ByteLen(message.text) > DescriptionLimit
    THEN sendMessage(w, message.chat,
                     <<"Description too long. Please keep it under 100 characters.">>)
    ELSE LET w1 == [w EXCEPT !.userStates[state].Description = message.text]
             st == w1.userStates[state]
         IN  IF ~env.prepareOk
             THEN sendMessage(w1, message.chat, <<"Failed to prepare transaction.">>)
             ELSE IF ~ExecSucceeds(env, st)
             THEN sendMessage(w1, message.chat, <<"Failed to save transaction.">>)
             ELSE sendMessage(
                      [w1 EXCEPT
                         !.db = Append(@, Row(st.TransactionType, st.Category, st.Amount,
                                              st.Description,
                                              FormatDateTime(InGMT7(now))))],
                      message.chat, <<"Transaction added successfully!">>)

processDescription(w, message, state, now, env) ==
    IF ByteLen(message.text) > DescriptionLimit
    THEN sendMessage(w, message.chat,
                     <<"Description too long. Please keep it under 100 characters.">>)
    ELSE LET w1 == [w EXCEPT !.userStates[state].Description = message.text]
             st == w1.userStates[state]
             currentTime == InGMT7(now)
         IN  IF ~env.prepareOk
             THEN sendMessage(w1, message.chat, <<"Failed to prepare transaction.">>)
             ELSE IF ~ExecSucceeds(env, st)
             THEN sendMessage(w1, message.chat, <<"Failed to save transaction.">>)
             ELSE sendMessage(
                      [w1 EXCEPT
                         !.db = Append(@, Row(st.TransactionType, st.Category, st.Amount,
                                              st.Description, FormatDateTime(currentTime))),
                         !.userStates = MapDelete(@, st.UserID)],
                      message.chat, <<"Transaction added successfully!">>)

(***************************************************************************)
(* showSummary: SELECT type, SUM(amount) ... WHERE strftime('%m',          *)
(* created_at) = ? GROUP BY type, then the two totals and the balance.     *)
(***************************************************************************)
\* WHERE strftime('%m', created_at) = ? with the row's type as the group
Matches(r, month, type) == r.type = type /\ StrftimeMonth(r.created_at) = month

\* fabs(x) > fabs(y) on float64: false when one of them is NaN
FloatAbsGt(x, y) ==
    CASE x.kind = "nan" \/ y.kind = "nan" -> FALSE
      [] x.kind = "inf" -> y.kind # "inf"
      [] y.kind = "inf" -> FALSE
      [] OTHER -> BigCmp(BigShl(x.mant, x.exp - Min(x.exp, y.exp)),
                         BigShl(y.mant, y.exp - Min(x.exp, y.exp))) > 0

RECURSIVE AddInOrder(_)
\* float64 values added from left to right, each sum rounded
AddInOrder(xs) ==
    IF Len(xs) = 1 THEN xs[1]
    ELSE FloatAdd(AddInOrder(SubSeq(xs, 1, Len(xs) - 1)), xs[Len(xs)])

\* s and r, the one of larger magnitude first (s first only if fabs(s) >
\* fabs(r))
LargerFirst(s, r) == IF FloatAbsGt(s, r) THEN <<s, r>> ELSE <<r, s>>

\* SQLite's kahanBabuskaNeumaierStep: rErr += (big - t) + small, where t is
\* the new running sum and big, small are the old one and the value added
Compensation(rErr, pair, t) == AddInOrder(<<pair[1], FloatNeg(t), pair[2], rErr>>)

\* sumStep with the new running sum t = rSum + r: before version 3.43
\* nothing else is kept; since, what the addition lost goes into rErr
SumStepTo(algorithm, p, r, t) ==
    [rSum |-> t,
     rErr |-> IF algorithm = "plain" THEN p.rErr
              ELSE Compensation(p.rErr, LargerFirst(p.rSum, r), t)]

\* SQLite's sumStep on the context p = [rSum, rErr] and the value r
sumStep(algorithm, p, r) == SumStepTo(algorithm, p, r, AddInOrder(<<p.rSum, r>>))

RECURSIVE SumAmounts(_, _, _, _, _)
\* sumStep over the rows lo..hi of a group, in the order of the rows,
\* continuing from the context p of the rows before them (a running sum
\* that is NaN stays so, and so does the result)
SumAmounts(algorithm, rows, lo, hi, p) ==
    IF p.rSum.kind = "nan" \/ lo > hi THEN p
    ELSE IF lo = hi THEN sumStep(algorithm, p, rows[lo].amount)
    ELSE SumAmounts(algorithm, rows, (lo + hi) \div 2 + 1, hi,
                    SumAmounts(algorithm, rows, lo, (lo + hi) \div 2, p))

\* SQLite's sumFinalize: the running sum before version 3.43; since, rSum +
\* rErr, or rSum alone when rErr is infinite or NaN
sumFinalize(algorithm, p) ==
    IF algorithm = "plain" \/ p.rErr.kind # "fin" THEN p.rSum
    ELSE AddInOrder(<<p.rSum, p.rErr>>)

\* the query, were it to select amount in place of SUM(amount): the loop of
\* showSummary keeps the amount of the last row of the type
Sum_KeepsLastRow(algorithm, group) ==
    IF group = <<>> THEN Zero ELSE group[Len(group)].amount

\* SUM(amount) over a group of rows: the additions start from 0.0
Sum(algorithm, group) ==
    sumFinalize(algorithm,
                SumAmounts(algorithm, group, 1, Len(group),
                           [rSum |-> Zero, rErr |-> Zero]))

\* the values a type column can hold, in the order GROUP BY type returns the
\* groups: that of the bytes of the names
GroupOrder == <<"Food", "Salary", "expense", "income">>

\* the types of the rows of the result set, in their order: one row per
\* type that has a row of the month
ResultTypes(rows, month) ==
    SelectSeq(GroupOrder,
              LAMBDA type : \E i \in 1..Len(rows) : Matches(rows[i], month, type))

\* rows.Scan of a sum into a float64: it fails on a NULL, which is what a sum
\* that is NaN becomes, and total keeps its zero value
Scanned(total) == IF total.kind = "nan" THEN Zero ELSE total

\* the total the loop of lines 257-270 leaves for one type, rows.Next having
\* returned the first `fetched` rows of the result set: 0.0 when the loop
\* saw no row of that type, and when the Scan of its row failed, which is
\* the case of a sum that is NaN, a NULL for SQLite
MonthlyTotal(rows, month, type, fetched, algorithm) ==
    LET types == ResultTypes(rows, month)
    IN  IF \A i \in 1..Min(fetched, Len(types)) : types[i] # type THEN Zero
        ELSE Scanned(Sum(algorithm, SelectSeq(rows, LAMBDA r : Matches(r, month, type))))

\* t.Format("January 2006"): month and year in the zone of t
FormatMonthYear(t) == <<InLocation(t).mo, InLocation(t).y>>

\* fmt's %.2f of each of a list of amounts
Printed(amounts) == [i \in 1..Len(amounts) |-> Format2f(amounts[i])]

\* lines 277-280: the message, with the heading and the three amounts
SendSummary(w, chatID, heading, printed) ==
    sendMessage(w, chatID,
        <<"Monthly Summary Report for %s", heading,
          "Total Income: %.2f", printed[1],
          "Total Expense: %.2f", printed[2],
          "Balance: %.2f", printed[3]>>)

\* line 276, balance := incomeTotal - expenseTotal, and the message
Report(w, chatID, heading, incomeTotal, expenseTotal) ==
    SendSummary(w, chatID, heading,
        Printed(<<incomeTotal, expenseTotal, FloatSub(incomeTotal, expenseTotal)>>))

\* the heading is printed from a second reading of the clock (line 277),
\* env.lag hours after the first (line 246)
showSummary(w, chatID, now, env) ==
    IF ~env.queryOk
    THEN sendMessage(w, chatID, <<"Error retrieving transactions.">>)
    ELSE Report([w EXCEPT !.elapsed = env.lag], chatID,
                FormatMonthYear(AddHours(now, env.lag)),
                MonthlyTotal(w.db, FormatMonth(now), "income", env.fetched, w.sqlite),
                MonthlyTotal(w.db, FormatMonth(now), "expense", env.fetched, w.sqlite))

\* the output an external report script prints
ScriptOutput == <<"report">>

\* get_latest_report, were it to end the dialog in progress
get_latest_report_EndsDialog(w, chatID, env) ==
    IF ~env.scriptOk THEN sendMessage(w, chatID, <<"Failed to execute the report.">>)
    ELSE sendMessage([w EXCEPT !.userStates = MapDelete(@, ALLOWED_USER_ID)],
                     chatID, ScriptOutput)

get_latest_report(w, chatID, env) ==
    IF ~env.scriptOk THEN sendMessage(w, chatID, <<"Failed to execute the report.">>)
    ELSE sendMessage(w, chatID, ScriptOutput)

get_weekly_expense_report(w, chatID, env) ==
    IF ~env.scriptOk THEN sendMessage(w, chatID, <<"Failed to execute the report.">>)
    ELSE sendMessage(w, chatID, ScriptOutput)

handleMessage(w, message, now, env) ==
    LET userID == message.from
    IN  IF userID # ALLOWED_USER_ID
        THEN sendMessage(w, message.chat, NotAuthorized)
        ELSE CASE message.cmd = "add" -> startTransaction(w, message.chat, userID)
               [] message.cmd = "summary" -> showSummary(w, message.chat, now, env)
               [] message.cmd = "get_latest_report" -> get_latest_report(w, message.chat, env)
               [] message.cmd = "get_weekly_expense" ->
                      get_weekly_expense_report(w, message.chat, env)
               [] OTHER ->
                      IF userID \in DOMAIN w.userStates
                      THEN CASE w.userStates[userID].Step = "ENTER_AMOUNT" ->
                                    processAmount(w, message, userID)
                             [] w.userStates[userID].Step = "ENTER_DESCRIPTION" ->
                                    processDescription(w, message, userID, now, env)
                             [] OTHER -> w
                      ELSE sendMessage(w, message.chat,
                                       <<"I don't understand that command.">>)

\* handleCallbackQuery, were it to skip the check of the sender
handleCallbackQuery_NoAuth(w, callback) ==
    LET userID == callback.from
    IN  IF userID \notin DOMAIN w.userStates THEN w
        ELSE CASE w.userStates[userID].Step = "SELECT_TYPE" ->
                      processTransactionType(w, callback, userID)
               [] w.userStates[userID].Step = "SELECT_CATEGORY" ->
                      processCategory(w, callback, userID)
               [] OTHER -> w

\* handleCallbackQuery, were it to take a button at any later step for a
\* category
handleCallbackQuery_AnyStep(w, callback) ==
    LET userID == callback.from
    IN  IF userID # ALLOWED_USER_ID
        THEN sendMessage(w, callback.chat, NotAuthorized)
        ELSE IF userID \notin DOMAIN w.userStates THEN w
        ELSE CASE w.userStates[userID].Step = "SELECT_TYPE" ->
                      processTransactionType(w, callback, userID)
               [] OTHER -> processCategory(w, callback, userID)

handleCallbackQuery(w, callback) ==
    LET userID == callback.from
    IN  IF userID # ALLOWED_USER_ID
        THEN sendMessage(w, callback.chat, NotAuthorized)
        ELSE IF userID \notin DOMAIN w.userStates THEN w
        ELSE CASE w.userStates[userID].Step = "SELECT_TYPE" ->
                      processTransactionType(w, callback, userID)
               [] w.userStates[userID].Step = "SELECT_CATEGORY" ->
                      processCategory(w, callback, userID)
               [] OTHER -> w

(***************************************************************************)
(* The updates the transport delivers.                                     *)
(***************************************************************************)
\* texts sent in answer to the description prompt
DescriptionTexts ==
    { Str(<<"l", "u", "n", "c", "h">>),
      Rep("a", DescriptionLimit),
      Rep("a", DescriptionLimit + 1),
      Rep("e_acute", DescriptionLimit) }

\* the text a user sends: the answer to the prompt on display
TextsAt(w, userID) ==
    IF userID \in DOMAIN w.userStates /\ w.userStates[userID].Step = "ENTER_DESCRIPTION"
    THEN DescriptionTexts
    ELSE AmountTexts

\* message.Command(): "" for a message that is no command
Commands == {"add", "summary", "get_latest_report", "get_weekly_expense"}

\* the text of a command message; only its first character is spelled out
CommandText(cmd) == Str(<<"/", cmd>>)

\* callback data: a button of the type prompt and one of the category prompt,
\* either of which may be tapped at any time once it has been shown
CallbackData == {TypeButtons[1], categories[1]}

\* the messages a callback may answer (callback.Message.MessageID)
MessageIDs == {11, 12}

Message(from, cmd, text) ==
    [kind |-> "message", from |-> from, chat |-> from, cmd |-> cmd, text |-> text]

Callback(from, messageID, data) ==
    [kind |-> "callback", from |-> from, chat |-> from, mid |-> messageID, data |-> data]

\* what the store, the report scripts and the clock do during one update:
\* whether Prepare, Exec, Query and the script succeed, how many rows of the
\* result set rows.Next returns before it ends the loop (all of them, or
\* fewer on an error that rows.Err then reports), and how many hours pass
\* between the two readings of the clock in showSummary
Envs ==
    [prepareOk : BOOLEAN, execOk : BOOLEAN, queryOk : BOOLEAN, scriptOk : BOOLEAN,
     fetched : 0..Len(GroupOrder), lag : {0, 1}]
AllOk ==
    [prepareOk |-> TRUE, execOk |-> TRUE, queryOk |-> TRUE, scriptOk |-> TRUE,
     fetched |-> Len(GroupOrder), lag |-> 0]
NoneOk ==
    [prepareOk |-> FALSE, execOk |-> FALSE, queryOk |-> FALSE, scriptOk |-> FALSE,
     fetched |-> 0, lag |-> 0]

\* the outcomes that differ from AllOk in these fields only
Varying(fields) == {e \in Envs : \A f \in DOMAIN AllOk \ fields : e[f] = AllOk[f]}

\* the outcomes showSummary can tell apart: the query fails, or it succeeds
\* and the loop reads some or all of the result set
SummaryEnvs ==
    {e \in Varying({"queryOk", "fetched", "lag"}) :
        ~e.queryOk => e.fetched = AllOk.fetched /\ e.lag = AllOk.lag}

\* those the report handlers can tell apart
ScriptEnvs == Varying({"scriptOk"})

\* those processDescription can tell apart
CommitEnvs == Varying({"prepareOk", "execOk"})

\* only the outcomes the handler of this update can observe are varied
EnvsFor(w, m, now) ==
    IF m.from # ALLOWED_USER_ID THEN {AllOk}
    ELSE IF m.cmd = "summary"
         THEN LET n == Len(ResultTypes(w.db, FormatMonth(now)))
              IN  {e \in SummaryEnvs : e.fetched < AllOk.fetched => e.fetched < n}
    ELSE IF m.cmd \in {"get_latest_report", "get_weekly_expense"} THEN ScriptEnvs
    ELSE IF m.cmd = "" /\ m.from \in DOMAIN w.userStates
            /\ w.userStates[m.from].Step = "ENTER_DESCRIPTION"
         THEN CommitEnvs
    ELSE {AllOk}

\* the step of a user's dialog, "" when the map holds no entry
StepOf(m, userID) == IF userID \in DOMAIN m THEN m[userID].Step ELSE ""

\* the world a handler starts in; elapsed counts the hours that pass while
\* it runs
World ==
    [userStates |-> userStates, db |-> db, sent |-> <<>>, elapsed |-> 0,
     sqlite |-> sqlite]

\* the effect of one iteration of the loop of main on the variables
Deliver(r) ==
    /\ steps < MaxSteps
    /\ userStates' = r.userStates
    /\ db' = r.db
    /\ sent' = r.sent
    /\ steps' = steps + 1
    /\ stepBefore' = StepOf(userStates, ALLOWED_USER_ID)
    /\ clock' = clock + r.elapsed
    /\ UNCHANGED <<zone, sqlite>>

Init ==
    /\ userStates = EmptyMap
    /\ db \in InitialStores
    /\ sent = <<>>
    /\ clock = 0
    /\ zone \in ServerZones
    /\ sqlite \in SumAlgorithms
    /\ steps = 0
    /\ stepBefore = ""

\* update.Message != nil: a command of the authorized user
OnCommand ==
    \E cmd \in Commands :
        LET m == Message(ALLOWED_USER_ID, cmd, CommandText(cmd))
        IN  \E env \in EnvsFor(World, m, Now) : Deliver(handleMessage(World, m, Now, env))

\* update.Message != nil: a message of the authorized user that is no command
OnText ==
    \E text \in TextsAt(World, ALLOWED_USER_ID) :
        LET m == Message(ALLOWED_USER_ID, "", text)
        IN  \E env \in EnvsFor(World, m, Now) : Deliver(handleMessage(World, m, Now, env))

\* update.CallbackQuery != nil: a button tapped by the authorized user
OnCallback ==
    \E mid \in MessageIDs, data \in CallbackData :
        LET c == Callback(ALLOWED_USER_ID, mid, data)
        IN  Deliver(handleCallbackQuery(World, c))

\* the updates another user can cause: every command, a text, a button
StrangerUpdates ==
    {Message(StrangerID, cmd, CommandText(cmd)) : cmd \in Commands}
        \cup {Message(StrangerID, "", text) : text \in AmountTexts}
        \cup {Callback(StrangerID, mid, data) : mid \in MessageIDs, data \in CallbackData}

\* one iteration of the loop of main on an update: the dispatch of lines 97-101
HandleUpdate(w, update, now, env) ==
    IF update.kind = "message" THEN handleMessage(w, update, now, env)
    ELSE handleCallbackQuery(w, update)

\* an update from a user who is not the authorized one
OnStranger ==
    \E update \in StrangerUpdates : Deliver(HandleUpdate(World, update, Now, AllOk))

\* time passes between two updates
Tick ==
    /\ steps < MaxSteps
    /\ clock' = clock + 1
    /\ steps' = steps + 1
    /\ UNCHANGED <<userStates, db, sent, zone, sqlite, stepBefore>>

Next == OnCommand \/ OnText \/ OnCallback \/ OnStranger \/ Tick

Spec == Init /\ [][Next]_vars

(***************************************************************************)
(* Shorthands for the properties.                                          *)
(***************************************************************************)
Own == ALLOWED_USER_ID
HasDialog == Own \in DOMAIN userStates
Dialog == userStates[Own]

AddCommand == Message(Own, "add", CommandText("add"))
OwnText(text) == Message(Own, "", text)

\* what the loop of main makes of an update delivered in the current state
Result(update, env) == HandleUpdate(World, update, Now, env)

\* the current step is the handling of this update
Handles(update, env) == Deliver(Result(update, env))

Rejection(chatID) ==
    [op |-> "sendMessage", chat |-> chatID, mid |-> 0,
     text |-> <<"You are not authorized to use this bot.">>, keyboard |-> <<>>]

SentText(text) ==
    Len(sent) = 1 /\ sent[1].op = "sendMessage" /\ sent[1].text = <<text>>

\* db2 is db1 with exactly one row added at the end
ExtendsByOne(db1, db2) ==
    /\ Len(db2) = Len(db1) + 1
    /\ \A i \in 1..Len(db1) : db2[i] = db1[i]

LastRow(rows) == rows[Len(rows)]

(***************************************************************************)
(* C1.  An update whose sender is not the authorized user, of whatever     *)
(* kind (each command, a text, a button) and in whatever state, is         *)
(* answered by the rejection message alone and changes neither the map of  *)
(* dialog states nor the table.                                            *)
(***************************************************************************)
C1_UnauthorizedChangesNothing ==
    \A u \in StrangerUpdates, env \in {AllOk, NoneOk} :
        LET r == Result(u, env)
        IN  /\ r.userStates = userStates
            /\ r.db = db
            /\ r.sent = <<Rejection(u.chat)>>

\* a stranger was rejected while the authorized user's dialog waits for the
\* description, and the dialog is still there
C1_Witness ==
    /\ sent = <<Rejection(StrangerID)>>
    /\ HasDialog
    /\ Dialog.Step = "ENTER_DESCRIPTION"
    /\ Dialog.Category = "Food"
    /\ FloatGtZero(Dialog.Amount)
    /\ Len(db) > 0

(***************************************************************************)
(* C2.  Every row of the table has type "income" or "expense".             *)
(* Refuted: the payload of any button is stored as the type at SELECT_TYPE.*)
(***************************************************************************)
C2_TypeIsIncomeOrExpense ==
    \A i \in 1..Len(db) : db[i].type \in {"income", "expense"}

(***************************************************************************)
(* C3.  Every row of the table has a category of the configured list.      *)
(* Refuted: the payload of any button is stored as the category at         *)
(* SELECT_CATEGORY.                                                        *)
(***************************************************************************)
C3_CategoryIsConfigured ==
    \A i \in 1..Len(db) : \E k \in 1..Len(categories) : db[i].category = categories[k]

(***************************************************************************)
(* C4.  /add from the authorized user, in any state, leaves the user with  *)
(* a dialog at SELECT_TYPE whose four accumulated fields are empty, and    *)
(* adds no row.                                                            *)
(***************************************************************************)
C4_AddStartsFresh ==
    \A env \in {AllOk, NoneOk} :
        LET r == Result(AddCommand, env)
        IN  /\ DOMAIN r.userStates = DOMAIN userStates \cup {Own}
            /\ r.userStates[Own].UserID = Own
            /\ r.userStates[Own].Step = "SELECT_TYPE"
            /\ r.userStates[Own].TransactionType = ""
            /\ r.userStates[Own].Category = ""
            /\ r.userStates[Own].Amount = Finite(FALSE, 0, 0)
            /\ r.userStates[Own].Description = <<>>
            /\ r.db = db

\* /add has just replaced a dialog that was waiting for its description
C4_Witness ==
    /\ stepBefore = "ENTER_DESCRIPTION"
    /\ HasDialog
    /\ Dialog.Step = "SELECT_TYPE"
    /\ Len(sent) = 1
    /\ sent[1].op = "sendMessageWithKeyboard"

(***************************************************************************)
(* C5.  A text received at ENTER_AMOUNT: if it parses as a number greater  *)
(* than zero the step becomes ENTER_DESCRIPTION and the amount is that     *)
(* number; otherwise the dialog state and the table are unchanged.         *)
(* Refuted: "NaN" parses, is not greater than zero, and is accepted.       *)
(***************************************************************************)
C5_AmountAcceptedIffPositive ==
    [][\A text \in AmountTexts :
          (StepOf(userStates, Own) = "ENTER_AMOUNT" /\ Handles(OwnText(text), AllOk)) =>
              LET p == ParseFloat(text)
              IN  IF ~p.err /\ FloatGtZero(p.val)
                  THEN /\ Own \in DOMAIN userStates'
                       /\ userStates'[Own].Step = "ENTER_DESCRIPTION"
                       /\ userStates'[Own].Amount = p.val
                  ELSE /\ userStates' = userStates
                       /\ db' = db]_vars

(***************************************************************************)
(* C6.  A text d received at ENTER_DESCRIPTION: with at most 100           *)
(* characters and a store that accepts the write, one row with description *)
(* d is added and the dialog state deleted; with 101 characters or more    *)
(* nothing is added and the dialog state is unchanged.                     *)
(* Refuted: the limit is on bytes, so 100 two-byte characters are refused. *)
(***************************************************************************)
C6_DescriptionAcceptedUpTo100Chars ==
    [][\A d \in DescriptionTexts, env \in CommitEnvs :
          (StepOf(userStates, Own) = "ENTER_DESCRIPTION" /\ Handles(OwnText(d), env)) =>
              IF CharLen(d) <= 100
              THEN (env.prepareOk /\ ExecSucceeds(env, Dialog)) =>
                       /\ ExtendsByOne(db, db')
                       /\ LastRow(db').description = d
                       /\ Own \notin DOMAIN userStates'
              ELSE /\ db' = db
                   /\ userStates' = userStates]_vars

(***************************************************************************)
(* C7.  A complete dialog with no other update in between (/add, type t,   *)
(* category c, an amount text the dialog accepts as a number above zero,   *)
(* a description the dialog accepts, the store available) adds exactly one *)
(* row, which carries t, c, the amount, the description and the UTC+7      *)
(* civil time of the commit, and leaves the user without a dialog state.   *)
(***************************************************************************)
\* the world after the handler of one more update has run
After(w, update, now) == HandleUpdate([w EXCEPT !.sent = <<>>], update, now, AllOk)

\* the prompt the buttons of the dialog are tapped on
PromptID == CHOOSE mid \in MessageIDs : TRUE

ValidAmountTexts == {a \in AmountTexts : ~ParseFloat(a).err /\ FloatGtZero(ParseFloat(a).val)}
ValidDescriptionTexts == {d \in DescriptionTexts : ByteLen(d) <= 100}

\* the five updates of the dialog are handled one after the other from the
\* current state: w1 .. w4 are the worlds in between, r the one it ends in
C7_FullDialogAddsOneRow ==
    \A w1 \in {After(World, AddCommand, Now)} :
    \A t \in TypeSet, mid \in {PromptID} :
    \A w2 \in {After(w1, Callback(Own, mid, t), Now)} :
    \A c \in CategorySet :
    \A w3 \in {After(w2, Callback(Own, mid, c), Now)} :
    \A a \in ValidAmountTexts :
    \A w4 \in {After(w3, OwnText(a), Now)} :
    \A d \in ValidDescriptionTexts :
    \A r \in {After(w4, OwnText(d), Now)} :
        /\ ExtendsByOne(db, r.db)
        /\ LastRow(r.db) = [type |-> t, category |-> c, amount |-> ParseFloat(a).val,
                            description |-> d,
                            created_at |-> FormatDateTime(AddHours(Now, 7))]
        /\ Own \notin DOMAIN r.userStates
        /\ r.sent = <<[op |-> "sendMessage", chat |-> Own, mid |-> 0,
                       text |-> <<"Transaction added successfully!">>,
                       keyboard |-> <<>>]>>

\* a dialog has just been committed after midnight UTC+7: the row is in the
\* table under the next day's date and the dialog state is gone
C7_Witness ==
    /\ SentText("Transaction added successfully!")
    /\ stepBefore = "ENTER_DESCRIPTION"
    /\ ~HasDialog
    /\ LastRow(db) = [type |-> "income", category |-> "Food",
                      amount |-> Finite(FALSE, 125, 1),
                      description |-> Str(<<"l", "u", "n", "c", "h">>),
                      created_at |-> <<2025, 1, 1, 0, 59, 59>>]

(***************************************************************************)
(* C8.  The table is append-only and grows only at the last step: every    *)
(* step leaves it unchanged or adds exactly one row at the end, and a row  *)
(* is added only by an accepted description received at ENTER_DESCRIPTION, *)
(* which ends the dialog, so that a dialog adds at most one row.           *)
(***************************************************************************)
C8_AppendOnlyAtLastStep ==
    [][db' # db =>
          /\ ExtendsByOne(db, db')
          /\ HasDialog
          /\ Dialog.Step = "ENTER_DESCRIPTION"
          /\ Own \notin DOMAIN userStates'
          /\ ByteLen(LastRow(db').description) <= 100
          /\ Len(sent') = 1
          /\ sent'[1].text = <<"Transaction added successfully!">>]_vars

\* a row has been added behind a row that was already there
C8_Witness ==
    /\ Len(db) = 2
    /\ db[1] = LegacyRow
    /\ stepBefore = "ENTER_DESCRIPTION"
    /\ ~HasDialog

(***************************************************************************)
(* C9.  Every row of the table has a finite amount greater than zero.      *)
(* Refuted: "Inf" parses to +Inf, passes amount <= 0 and is stored.        *)
(***************************************************************************)
C9_AmountFinitePositive ==
    \A i \in 1..Len(db) : db[i].amount.kind = "fin" /\ FloatGtZero(db[i].amount)

(***************************************************************************)
(* C10.  Once the step has left SELECT_TYPE the transactionType of the     *)
(* dialog keeps its value through every later update of that dialog, the   *)
(* row committed carries it, and only /add (which returns the step to      *)
(* SELECT_TYPE) discards it; the value is the payload selected at          *)
(* SELECT_TYPE.                                                            *)
(***************************************************************************)
C10_TypePersists ==
    [][/\ (HasDialog /\ Dialog.Step # "SELECT_TYPE" /\ Own \in DOMAIN userStates'
              /\ userStates'[Own].Step # "SELECT_TYPE")
          => userStates'[Own].TransactionType = Dialog.TransactionType
       /\ (HasDialog /\ db' # db) => LastRow(db').type = Dialog.TransactionType
       /\ (HasDialog /\ Dialog.Step = "SELECT_TYPE" /\ Own \in DOMAIN userStates'
              /\ userStates'[Own].Step = "SELECT_CATEGORY")
          => \E i \in 1..Len(sent') :
                 /\ sent'[i].op = "editMessageWithKeyboard"
                 /\ sent'[i].text[2] = userStates'[Own].TransactionType]_vars

\* income was selected, a category, an amount and a description followed,
\* and the row committed has type income
C10_Witness ==
    /\ SentText("Transaction added successfully!")
    /\ LastRow(db).type = "income"
    /\ LastRow(db).category = "Food"
    /\ LastRow(db).amount = Finite(FALSE, 125, 1)

(***************************************************************************)
(* C11.  A description of valid length received at ENTER_DESCRIPTION while *)
(* the store refuses the write (Prepare or Exec fails): one failure        *)
(* message is sent, no row is added, the dialog state is exactly what it   *)
(* was, and the same description sent again with the store available adds  *)
(* exactly one row.                                                        *)
(* Refuted: the description is stored in the dialog state before Prepare,  *)
(* so a failed commit changes the Description field.                       *)
(***************************************************************************)
FailureTexts == {<<"Failed to prepare transaction.">>, <<"Failed to save transaction.">>}

C11_FailedCommitKeepsState ==
    [][\A d \in ValidDescriptionTexts, env \in CommitEnvs :
          (/\ StepOf(userStates, Own) = "ENTER_DESCRIPTION"
           /\ ~(env.prepareOk /\ env.execOk)
           /\ Handles(OwnText(d), env)) =>
              /\ Len(sent') = 1
              /\ sent'[1].op = "sendMessage"
              /\ sent'[1].text \in FailureTexts
              /\ db' = db
              /\ userStates' = userStates
              /\ LET r == After([userStates |-> userStates', db |-> db', sent |-> <<>>],
                                OwnText(d), Now)
                 IN  ExtendsByOne(db, r.db) /\ Own \notin DOMAIN r.userStates]_vars

(***************************************************************************)
(* C12.  /summary, when the query and the reading of its result succeed,   *)
(* reports for the rows whose created_at month is the month of now (UTC):  *)
(* as income total the sum of the amounts of the rows of type income, as   *)
(* expense total that of the rows of type expense, and as balance the      *)
(* income total less the expense total; a type without such a row totals   *)
(* 0.00, and so does the balance of a month without rows.  A total is      *)
(* shown to two decimals and added up in float64: the number shown is      *)
(* within half a hundredth, and the rounding error of the additions, of    *)
(* the exact sum, whichever way the SQLite of the build adds up.  The time *)
(* that passes while the handler runs changes none of them.                *)
(***************************************************************************)
SummaryCommand == Message(Own, "summary", CommandText("summary"))

\* the rows of one type and one created_at month in a table
RowsIn(rows, type, month) ==
    {i \in 1..Len(rows) : rows[i].type = type /\ rows[i].created_at[2] = month}

\* the rows of one type whose created_at month is the month of now
RowsOfMonth(type) == RowsIn(db, type, Now.mo)

RECURSIVE ExactSum(_, _, _)
\* the finite amounts, none negative, of the rows S of a table added up
\* exactly, in units of 2^e
ExactSum(rows, S, e) ==
    IF S = {} THEN <<>>
    ELSE LET i == CHOOSE j \in S : TRUE
         IN  BigAdd(BigShl(rows[i].amount.mant, rows[i].amount.exp - e),
                    ExactSum(rows, S \ {i}, e))

\* a unit 2^e, e <= 0, in which the amounts of the rows S are whole numbers
UnitOf(rows, S) == SetMin({rows[i].amount.exp : i \in S} \cup {0})

HasInf(rows, S) == \E i \in S : rows[i].amount.kind = "inf"

\* the hundredths the text of a %.2f shows, sign apart
ShownHundredths(text) ==
    LET ds == SelectSeq(text, IsDigit)
    IN  BigOfDigits([i \in 1..Len(ds) |-> DigitVal(ds[i])], 1, Len(ds), 10)

AbsDiff(a, b) == IF BigCmp(a, b) >= 0 THEN BigSub(a, b) ELSE BigSub(b, a)

\* the text shows a number of two decimals that differs from +-m * 2^e
\* (- when neg) by at most 1/200, the rounding to two decimals, and
\* (n + 1) * 2^-53 * total * 2^e, which bounds the error of adding n float64
\* values of which total * 2^e is the sum of the magnitudes and taking one
\* difference.  Both sides are multiplied by 200 * 2^(53 - e).
Within(text, neg, m, total, n, e) ==
    LET shown == BigShl(BigMulSmall(ShownHundredths(text), 2), MantBits - e)
        exact == BigShl(BigMulSmall(m, 200), MantBits)
        sameSign == (text[1] = "-") = neg
        gap == IF sameSign \/ m = <<>> \/ ShownHundredths(text) = <<>>
               THEN AbsDiff(shown, exact)
               ELSE BigAdd(shown, exact)
        bound == BigAdd(BigShl(<<1>>, MantBits - e), BigMulSmall(total, 200 * (n + 1)))
    IN  /\ text # <<>>
        /\ \A k \in 1..Len(text) : text[k] \in Digits \cup {"-", "."}
        /\ BigCmp(gap, bound) <= 0

\* the text shows the sum of the amounts of the rows S of a table: 0.00 for
\* no row, +Inf if an amount is, else a number close to the exact sum
ShowsSum(text, rows, S) ==
    IF S = {} THEN text = <<"0", ".", "0", "0">>
    ELSE IF HasInf(rows, S) THEN text = <<"+", "I", "n", "f">>
    ELSE LET e == UnitOf(rows, S)
             sum == ExactSum(rows, S, e)
         IN  Within(text, FALSE, sum, sum, Cardinality(S), e)

\* the text shows the sum of the amounts of the rows I less that of the rows
\* E, the two sets having no row in common
ShowsDifference(text, rows, I, E) ==
    IF I \cup E = {} THEN text = <<"0", ".", "0", "0">>
    ELSE IF HasInf(rows, I) /\ HasInf(rows, E) THEN text = <<"N", "a", "N">>
    ELSE IF HasInf(rows, I) THEN text = <<"+", "I", "n", "f">>
    ELSE IF HasInf(rows, E) THEN text = <<"-", "I", "n", "f">>
    ELSE LET e == UnitOf(rows, I \cup E)
             plus == ExactSum(rows, I, e)
             minus == ExactSum(rows, E, e)
         IN  Within(text, BigCmp(plus, minus) < 0, AbsDiff(plus, minus),
                    BigAdd(plus, minus), Cardinality(I \cup E), e)

Successor(step) ==
    CASE step = "SELECT_TYPE" -> "SELECT_CATEGORY"
      [] step = "SELECT_CATEGORY" -> "ENTER_AMOUNT"
      [] step = "ENTER_AMOUNT" -> "ENTER_DESCRIPTION"
      [] step = "ENTER_DESCRIPTION" -> ""
      [] OTHER -> "none"

C13_StepsAreLinear ==
    [][LET a == StepOf(userStates, Own)
           b == StepOf(userStates', Own)
       IN  /\ b \notin {a, Successor(a)} =>
                  /\ b = "SELECT_TYPE"
                  /\ Handles(AddCommand, AllOk)
                  /\ userStates'[Own] = NewState(Own)
           /\ (a # "" /\ b = "") => ExtendsByOne(db, db')]_vars

\* a dialog has gone through all four steps and is gone, its row committed
\* to a table that was empty
C13_Witness ==
    /\ stepBefore = "ENTER_DESCRIPTION"
    /\ ~HasDialog
    /\ Len(db) = 1
    /\ db[1].type = "expense" \/ db[1].type = "income"
    /\ db[1].category = "Food"
    /\ db[1].description = Str(<<"l", "u", "n", "c", "h">>)

(***************************************************************************)
(* C14.  An update of the wrong kind for the step does nothing: a button   *)
(* tapped while the step is ENTER_AMOUNT or ENTER_DESCRIPTION or while     *)
(* there is no dialog, and a text that is no command received while the    *)
(* step is SELECT_TYPE or SELECT_CATEGORY, leave the map of dialog states  *)
(* and the table as they are and send nothing.                             *)
(***************************************************************************)
\* the handler has changed nothing and sent nothing
NoOp(r) == r.userStates = userStates /\ r.db = db /\ r.sent = <<>>

C14_WrongKindIsNoOp ==
    \A env \in {AllOk, NoneOk} :
        /\ StepOf(userStates, Own) \in {"ENTER_AMOUNT", "ENTER_DESCRIPTION", ""} =>
               \A mid \in MessageIDs, data \in TypeSet \cup CategorySet :
                   NoOp(Result(Callback(Own, mid, data), env))
        /\ StepOf(userStates, Own) \in {"SELECT_TYPE", "SELECT_CATEGORY"} =>
               \A text \in AmountTexts \cup DescriptionTexts :
                   NoOp(Result(OwnText(text), env))

\* a button has been tapped while the dialog waited for the amount: nothing
\* was sent and the dialog still waits for the amount
C14_Witness ==
    /\ stepBefore = "ENTER_AMOUNT"
    /\ sent = <<>>
    /\ HasDialog
    /\ Dialog.Step = "ENTER_AMOUNT"
    /\ Dialog.Amount = Zero

(***************************************************************************)
(* C15.  Each update the dialog acts on causes exactly one call of         *)
(* bot.Send: /add a new message with the type keyboard; a button at        *)
(* SELECT_TYPE or SELECT_CATEGORY an edit of the message the button is on; *)
(* a text at ENTER_AMOUNT or ENTER_DESCRIPTION a new message, whether the  *)
(* text is accepted, rejected or the commit fails.                         *)
(***************************************************************************)
\* the handler made one call, of this kind, about this message (0: a new one)
SendsOne(r, op, mid) ==
    /\ Len(r.sent) = 1
    /\ r.sent[1].op = op
    /\ r.sent[1].chat = Own
    /\ r.sent[1].mid = mid

C15_OneMessagePerTransition ==
    /\ SendsOne(Result(AddCommand, AllOk), "sendMessageWithKeyboard", 0)
    /\ StepOf(userStates, Own) = "SELECT_TYPE" =>
           \A mid \in MessageIDs, data \in TypeSet :
               SendsOne(Result(Callback(Own, mid, data), AllOk),
                        "editMessageWithKeyboard", mid)
    /\ StepOf(userStates, Own) = "SELECT_CATEGORY" =>
           \A mid \in MessageIDs, data \in CategorySet :
               SendsOne(Result(Callback(Own, mid, data), AllOk), "editMessage", mid)
    /\ StepOf(userStates, Own) = "ENTER_AMOUNT" =>
           \A text \in AmountTexts : SendsOne(Result(OwnText(text), AllOk), "sendMessage", 0)
    /\ StepOf(userStates, Own) = "ENTER_DESCRIPTION" =>
           \A text \in DescriptionTexts, env \in CommitEnvs :
               SendsOne(Result(OwnText(text), env), "sendMessage", 0)

\* the category prompt has replaced the type prompt in message 12
C15_Witness ==
    /\ stepBefore = "SELECT_TYPE"
    /\ HasDialog
    /\ Dialog.Step = "SELECT_CATEGORY"
    /\ Len(sent) = 1
    /\ sent[1].op = "editMessageWithKeyboard"
    /\ sent[1].mid = 12
    /\ sent[1].keyboard = <<<<"Food">>, <<"Salary">>>>

(***************************************************************************)
(* C16.  /summary, /get_latest_report and /get_weekly_expense, sent by the *)
(* authorized user at any step or without a dialog, and whether the query  *)
(* or the script succeeds or fails or the result of the query is read in   *)
(* part, leave the map of dialog states and the table unchanged and answer *)
(* with one message.                                                       *)
(***************************************************************************)
ReportCommands == {"summary", "get_latest_report", "get_weekly_expense"}

\* the query succeeds, the loop reads no row of its result, and an hour
\* passes meanwhile
PartialRead == [AllOk EXCEPT !.fetched = 0, !.lag = 1]

C16_ReportsBypassDialog ==
    \A cmd \in ReportCommands, env \in {AllOk, NoneOk, PartialRead} :
        LET r == Result(Message(Own, cmd, CommandText(cmd)), env)
        IN  /\ r.userStates = userStates
            /\ r.db = db
            /\ SendsOne(r, "sendMessage", 0)

\* a report was sent while the dialog waited for the description, and the
\* dialog still waits for it with the amount it had
C16_Witness ==
    /\ stepBefore = "ENTER_DESCRIPTION"
    /\ HasDialog
    /\ Dialog.Step = "ENTER_DESCRIPTION"
    /\ Dialog.Amount = Finite(FALSE, 125, 1)
    /\ Len(sent) = 1
    /\ sent[1].text = ScriptOutput

(***************************************************************************)
(* C17.  The totals of a summary, which is headed with the month and year  *)
(* of now on the server, are the sums over the rows created in that month  *)
(* of that year; a row of another month, or of the same month of another   *)
(* year, adds to neither.                                                  *)
(* Refuted: the query compares the two-digit month only, so the row of     *)
(* December 2023 is counted in the summary headed December 2024.           *)
(***************************************************************************)
\* the rows of one type created in the month and year the heading names
RowsOfHeadedMonth(type) ==
    {i \in 1..Len(db) : /\ db[i].type = type
                        /\ db[i].created_at[1] = FormatMonthYear(Now)[2]
                        /\ db[i].created_at[2] = FormatMonthYear(Now)[1]}

C17_SummaryOfCalendarMonth ==
    [][Handles(SummaryCommand, AllOk) =>
          /\ Len(sent') = 1
          /\ sent'[1].text[2] = FormatMonthYear(Now)
          /\ ShowsSum(sent'[1].text[4], db, RowsOfHeadedMonth("income"))
          /\ ShowsSum(sent'[1].text[6], db, RowsOfHeadedMonth("expense"))]_vars

(***************************************************************************)
(* C18.  A row committed at an instant is counted by a summary requested   *)
(* at that instant: the month under which created_at is recorded and the   *)
(* month the summary filters by are the same, and the total of the row's   *)
(* type is the sum of what it counted before the commit and the row's      *)
(* amount.                                                                 *)
(* Refuted: created_at is UTC+7 civil time and the filter is the UTC       *)
(* month, which differ during the last seven hours of a UTC month.         *)
(***************************************************************************)
\* a row as the dialog is meant to produce it
WellFormed(row) ==
    /\ row.type \in TypeSet
    /\ row.category \in CategorySet
    /\ row.amount.kind = "fin"

C18_CommitCountedAtOnce ==
    [][(db' # db /\ WellFormed(LastRow(db'))) =>
          LET row == LastRow(db')
              month == FormatMonth(Now)
          IN  /\ StrftimeMonth(row.created_at) = month
              /\ ShowsSum(Format2f(MonthlyTotal(db', month, row.type, AllOk.fetched,
                                                 sqlite)),
                          db', RowsIn(db, row.type, month) \cup {Len(db')})]_vars

(***************************************************************************)
(* C19.  A dialog can always be completed: in every reachable state with a *)
(* dialog, whatever came before, the inputs its remaining steps expect (a  *)
(* type button, a category button, an amount above zero, a description the *)
(* dialog accepts), handled one after the other with the store available,  *)
(* end in exactly one row added and the dialog state deleted.              *)
(* Refuted: a dialog that has accepted "NaN" as its amount (C5) can never  *)
(* be committed; the amount column is NOT NULL and refuses it.             *)
(***************************************************************************)
\* the world after the update, if the dialog is at the step; the world as it
\* is otherwise
AtStep(w, step, update) ==
    IF StepOf(w.userStates, Own) = step THEN After(w, update, Now) ELSE w

C19_DialogCanBeCompleted ==
    HasDialog =>
        \A t \in TypeSet, c \in CategorySet, mid \in {PromptID} :
        \A a \in ValidAmountTexts, d \in ValidDescriptionTexts :
        \A w1 \in {AtStep(World, "SELECT_TYPE", Callback(Own, mid, t))} :
        \A w2 \in {AtStep(w1, "SELECT_CATEGORY", Callback(Own, mid, c))} :
        \A w3 \in {AtStep(w2, "ENTER_AMOUNT", OwnText(a))} :
        \A r \in {AtStep(w3, "ENTER_DESCRIPTION", OwnText(d))} :
            /\ ExtendsByOne(db, r.db)
            /\ LastRow(r.db).description = d
            /\ Own \notin DOMAIN r.userStates

(***************************************************************************)
(* C20.  In every reachable state the map of dialog states has at most one *)
(* entry, under the authorized user's id, which is also its UserID; its    *)
(* fields are filled in the order of the steps: none at SELECT_TYPE; the   *)
(* type alone at SELECT_CATEGORY; type and category, with a zero amount    *)
(* and no description, at ENTER_AMOUNT; the amount too at                  *)
(* ENTER_DESCRIPTION.  An entry appears only when /add of the authorized   *)
(* user is handled.                                                        *)
(***************************************************************************)
FieldsInStepOrder(st) ==
    CASE st.Step = "SELECT_TYPE" ->
             /\ st.TransactionType = "" /\ st.Category = ""
             /\ st.Amount = Zero /\ st.Description = <<>>
      [] st.Step = "SELECT_CATEGORY" ->
             /\ st.TransactionType # "" /\ st.Category = ""
             /\ st.Amount = Zero /\ st.Description = <<>>
      [] st.Step = "ENTER_AMOUNT" ->
             /\ st.TransactionType # "" /\ st.Category # ""
             /\ st.Amount = Zero /\ st.Description = <<>>
      [] st.Step = "ENTER_DESCRIPTION" ->
             /\ st.TransactionType # "" /\ st.Category # ""
             /\ st.Amount # Zero
      [] OTHER -> FALSE

DialogStateShape ==
    /\ DOMAIN userStates \subseteq {ALLOWED_USER_ID}
    /\ \A u \in DOMAIN userStates :
           userStates[u].UserID = u /\ FieldsInStepOrder(userStates[u])

C20_DialogStateWellFormed ==
    /\ []DialogStateShape
    /\ [][(DOMAIN userStates' # DOMAIN userStates /\ userStates' # EmptyMap) =>
              /\ Handles(AddCommand, AllOk)
              /\ userStates' = MapPut(EmptyMap, Own, NewState(Own))]_vars

\* the dialog holds a type, a category and an amount and waits for the
\* description
C20_Witness ==
    /\ DOMAIN userStates = {Own}
    /\ Dialog = [UserID |-> Own, Step |-> "ENTER_DESCRIPTION",
                 TransactionType |-> "income", Category |-> "Food",
                 Amount |-> Finite(FALSE, 125, 1), Description |-> <<>>]

====
